---- MODULE Spec2Model ----
(***************************************************************************)
(* The flyer generator: the page script (public/script.js) that asks the   *)
(* server for a layout and then fills the layout's image placeholders one  *)
(* at a time, and the server (server.js) whose /api/generate-image handler *)
(* clamps and rounds the dimensions, calls the image service and, for a    *)
(* transparent image, the local background remover.                        *)
(***************************************************************************)
EXTENDS Integers, Sequences, FiniteSets, TLC

VARIABLES
    pc,               \* position of the click handler: idle, awaitLayout, awaitImage, finished
    clicks,           \* clicks on the generate button so far
    posterContainer,  \* the child nodes of #poster-container
    btnDisabled,      \* generateBtn.disabled
    loadingHidden,    \* loadingIndicator has class "hidden"
    loadingText,      \* loadingText.textContent
    layoutData,       \* the handler's layoutData: <<>> until the layout arrives, then <<html>>
    images,           \* the NodeList of img[x-prompt]: indices into posterContainer
    i,                \* the loop variable of the image loop (1-based here)
    alerts,           \* the alert() messages of the current handler invocation
    progress,         \* the "Generating image i of N..." texts of the current run, in order
    delivered,        \* per placeholder of the run: pending, or how its fetch settled (ok, failed)
    served,           \* per placeholder of the run: the request whose response the script took
    layoutCalls,      \* /api/generate-layout requests in flight, each with its handler's position
    imageCalls,       \* /api/generate-image requests in flight, each with its handler's position
    requirements,     \* the server's global variable requirements (server.js line 219)
    env,              \* process.env: which API keys are set
    genCalls,         \* requests made to the image service since the last run or direct call started
    segCalls,         \* calls of removeBackground since the last run or direct call started
    bgCalls           \* POST /api/remove-bg requests in flight

vars == <<pc, clicks, posterContainer, btnDisabled, loadingHidden, loadingText,
          layoutData, images, i, alerts, progress, delivered, served, layoutCalls, imageCalls,
          requirements, env, genCalls, segCalls, bgCalls>>

clientVars == <<pc, clicks, posterContainer, btnDisabled, loadingHidden, loadingText,
                layoutData, images, i, alerts, progress, delivered, served>>

----------------------------------------------------------------------------
(* Bounds of the model. *)

\* nodes in a generated layout
MaxNodes == 3
\* clicks on the generate button
MaxClicks == 2
\* largest width or height a direct caller of the API sends
MaxDim == 90
\* most negative width or height a direct caller of the API sends is -MinDimBelow
\* the largest layout of a run that overlaps with another caller's requests
MaxOverlapNodes == 1
\* the longest answer of the language model, in characters
MaxTextLen == 7
MinDimBelow == 2

----------------------------------------------------------------------------
(* JavaScript values. *)

Num(n) == [t |-> "number", v |-> n]
Undefined == [t |-> "undefined", v |-> 0]

\* x < 64 for a number or undefined x (undefined converts to NaN: false)
LessThan(x, n) == x.t = "number" /\ x.v < n

\* a || b for a number or undefined a
OrElse(a, b) == IF a.t = "number" /\ a.v # 0 THEN a ELSE b

\* String.prototype.trim on a sequence of characters
RECURSIVE TrimStart(_)
TrimStart(s) == IF s # <<>> /\ Head(s) = " " THEN TrimStart(Tail(s)) ELSE s

RECURSIVE TrimEnd(_)
TrimEnd(s) == IF s # <<>> /\ s[Len(s)] = " " THEN TrimEnd(SubSeq(s, 1, Len(s) - 1)) ELSE s

\* Trim leaving the text as typed
TrimNone(s) == s

Trim(s) == TrimEnd(TrimStart(s))

\* what the user may have typed into #user-input
Briefs == { <<>>, <<" ">>, <<" ", "a", " ">>, <<"b">> }

----------------------------------------------------------------------------
(* Encoded images. *)

PngBytes  == <<137, 80, 78, 71, 13, 10>>
JpegBytes == <<255, 216, 255, 224>>
CutoutBytes == <<137, 80, 78, 71, 0, 1>>

\* buffer.toString('base64') and Buffer.from(s, 'base64')
ToBase64(bytes) == [enc |-> "base64", bytes |-> bytes]
FromBase64(s) == IF s.enc = "base64" THEN s.bytes ELSE <<>>

NoData == [enc |-> "none", bytes |-> <<>>]

\* the template string data:${mime};base64,${b64}
DataUrl(mime, b64) == [mime |-> mime, b64 |-> b64]

\* the src of an <img src="">
EmptySrc == [mime |-> "", b64 |-> NoData]

\* b64_json payloads the image service may return
GenPayloads == { ToBase64(JpegBytes), ToBase64(PngBytes) }

\* results removeBackground may return
SegOutputs == { CutoutBytes }

----------------------------------------------------------------------------
(* The layout markup and the DOM nodes made from it. *)

\* getAttribute of an attribute the element does not have
Null == "<null>"

\* The elements a layout may hold: each has the attributes x-prompt and
\* transparent (or lacks them) and the sizes the DOM reports for it.
HeroImg == [xprompt |-> "hero", transparent |-> "true",
            width |-> 10, clientWidth |-> 12, height |-> 0, clientHeight |-> 81]
LogoImg == [xprompt |-> "logo", transparent |-> "false",
            width |-> 0, clientWidth |-> 70, height |-> 0, clientHeight |-> 0]
BackImg == [xprompt |-> "back", transparent |-> Null,
            width |-> 0, clientWidth |-> 0, height |-> 200, clientHeight |-> 210]
PlainImg == [xprompt |-> Null, transparent |-> Null,
             width |-> 40, clientWidth |-> 40, height |-> 40, clientHeight |-> 40]

NodeKinds == { HeroImg, LogoImg, BackImg, PlainImg }

\* the layouts the language model may produce
Docs == UNION { [1..n -> NodeKinds] : n \in 0..MaxNodes }

\* posterContainer.innerHTML = html: fresh nodes, nothing generated yet
Render(html) ==
    [j \in 1..Len(html) |->
        [xprompt |-> html[j].xprompt, transparent |-> html[j].transparent,
         width |-> html[j].width, clientWidth |-> html[j].clientWidth,
         height |-> html[j].height, clientHeight |-> html[j].clientHeight,
         src |-> EmptySrc, generated |-> Null, alt |-> ""]]

\* the text of the language model's answer: the markup, possibly inside a
\* markdown code fence
Tok(kind, node) == [tok |-> kind, node |-> node]
Plain(html) == [j \in 1..Len(html) |-> Tok("node", html[j])]
Fenced(html) == <<Tok("fence-html", PlainImg)>> \o Plain(html) \o <<Tok("fence", PlainImg)>>
GeminiTexts == { Plain(d) : d \in Docs } \cup { Fenced(d) : d \in Docs }

\* text.replace(/FENCEhtml/g, '').replace(/FENCE/g, ''), FENCE being three backticks
StripFences(text) ==
    LET a == SelectSeq(text, LAMBDA t : t.tok # "fence-html")
    IN  SelectSeq(a, LAMBDA t : t.tok # "fence")

\* the markup a cleaned text is
MarkupOf(text) == [j \in 1..Len(text) |-> text[j].node]

----------------------------------------------------------------------------
(* server.js: the helpers. *)

\* buffer[j] of a Buffer (0-based; undefined past the end)
ByteAt(buffer, j) == IF j + 1 <= Len(buffer) THEN buffer[j + 1] ELSE -1

\* detectImageMimeFromBuffer knowing the PNG signature only
DetectPngOnly(buffer) ==
    IF Len(buffer) = 0 THEN "image/png"
    ELSE IF ByteAt(buffer, 0) = 137 /\ ByteAt(buffer, 1) = 80
            /\ ByteAt(buffer, 2) = 78 /\ ByteAt(buffer, 3) = 71 THEN "image/png"
    ELSE "application/octet-stream"

detectImageMimeFromBuffer(buffer) ==
    IF Len(buffer) = 0 THEN "image/png"
    ELSE IF ByteAt(buffer, 0) = 137 /\ ByteAt(buffer, 1) = 80
            /\ ByteAt(buffer, 2) = 78 /\ ByteAt(buffer, 3) = 71 THEN "image/png"
    ELSE IF ByteAt(buffer, 0) = 255 /\ ByteAt(buffer, 1) = 216
            /\ ByteAt(buffer, 2) = 255 THEN "image/jpeg"
    ELSE IF ByteAt(buffer, 0) = 82 /\ ByteAt(buffer, 1) = 73
            /\ ByteAt(buffer, 2) = 70 /\ ByteAt(buffer, 3) = 70
            /\ ByteAt(buffer, 8) = 87 /\ ByteAt(buffer, 9) = 69
            /\ ByteAt(buffer, 10) = 66 THEN "image/webp"
    ELSE "application/octet-stream"

\* the smallest width or height generateImage sends on
MinSize == 64
\* what roundToMultiple16 takes for a missing or zero number
DefaultSize == 1024
\* the image service takes multiples of this
Multiple == 16

\* MathRoundDiv as Math.floor
MathFloorDiv(n, d) == n \div d

\* Math.round(n / d) for integers n and d > 0: halves round up
MathRoundDiv(n, d) == (2 * n + d) \div (2 * d)

\* ClampMin without the clamp
ClampMinNone(x) == x

\* a clamp that takes an absent value for one below the minimum
ClampMinAbsent(x) == IF x = Undefined \/ LessThan(x, MinSize) THEN Num(MinSize) ELSE x

\* width = width < 64 ? 64 : width
ClampMin(x) == IF LessThan(x, MinSize) THEN Num(MinSize) ELSE x

\* const roundToMultiple16 = (num) => Math.round((num || 1024) / 16) * 16
roundToMultiple16(num) ==
    Num(MathRoundDiv(OrElse(num, Num(DefaultSize)).v, Multiple) * Multiple)

\* validWidth, validHeight of generateImage
ValidDim(x) == roundToMultiple16(ClampMin(x))

\* the return value of generateImage without the transparency pass
OpaqueUrl(b64) == DataUrl("image/jpeg", b64)

\* removeBackgroundFun: what it returns when removeBackground gave out
SegmentedUrl(out) == DataUrl("image/png", ToBase64(out))

\* FallbackUrl returning an empty image
FallbackUrlEmpty(imageBase64) == DataUrl("image/png", ToBase64(<<>>))

\* removeBackgroundFun: what its catch block returns
FallbackUrl(imageBase64) == DataUrl("image/png", imageBase64)

\* the string requirements is set to on line 219
FixedRequirements == <<"theme_concept: Timeless Elegance Revival">>

\* the template string ${systemPrompt}\n\nUser Requirements: ${requirements}
FullPrompt(req) == [system |-> "systemPrompt", user |-> req]

----------------------------------------------------------------------------
(* The requests in flight. A request is held from the fetch that issues it *)
(* until that fetch settles; stage is the position of the server's handler *)
(* for it: sent (not yet handled), upstream (awaiting the external         *)
(* service), segment (awaiting removeBackground), responded.               *)

NoPrompt == [system |-> Null, user |-> <<>>]
NoLayoutRes == [status |-> 0, html |-> <<>>]

NewLayoutCall(req) ==
    [origin |-> "page", requirements |-> req, stage |-> "sent", sent |-> NoPrompt,
     res |-> NoLayoutRes]

NoSent == [prompt |-> Null, width |-> Undefined, height |-> Undefined]
NoRes == [status |-> 0, url |-> EmptySrc]

NewImageCall(origin, k, body) ==
    [origin |-> origin, k |-> k, prompt |-> body.prompt, width |-> body.width,
     height |-> body.height, isTransparent |-> body.isTransparent,
     stage |-> "sent", sent |-> NoSent, payload |-> NoData, blobType |-> "",
     seg |-> "none", res |-> NoRes]

\* the entry of served for a placeholder no response was taken for
NoCall ==
    [origin |-> "none", k |-> 0, prompt |-> Null, width |-> Undefined,
     height |-> Undefined, isTransparent |-> FALSE,
     stage |-> "none", sent |-> NoSent, payload |-> NoData, blobType |-> "",
     seg |-> "none", res |-> NoRes]

\* res.json({ url }) and res.status(500).json({ error })
Ok200(url) == [status |-> 200, url |-> url]
\* Err500 without res.status(500): the error body goes out with status 200
Err500NoStatus == [status |-> 200, url |-> EmptySrc]
Err500 == [status |-> 500, url |-> EmptySrc]

----------------------------------------------------------------------------
(* server.js: POST /api/generate-layout and callGemini. *)

\* a helper that goes on without looking at its key
ApiKeyAssumed(name) == TRUE

\* const apiKey = process.env.GEMINI_API_KEY, process.env.TOGETHER_API_KEY;
\* if (!apiKey) throw
ApiKey(name) == env[name]

\* the handler up to callGemini's fetch
LayoutHandlerStart(c) ==
    /\ c \in layoutCalls
    /\ c.stage = "sent"
    /\ requirements' = FixedRequirements
    /\ IF ~ApiKey("gemini")
       THEN layoutCalls' = (layoutCalls \ {c}) \cup
                {[c EXCEPT !.stage = "responded", !.res = [status |-> 500, html |-> <<>>]]}
       ELSE layoutCalls' = (layoutCalls \ {c}) \cup
                {[c EXCEPT !.stage = "upstream", !.sent = FullPrompt(requirements')]}
    /\ UNCHANGED <<clientVars, imageCalls, env, genCalls, segCalls, bgCalls>>

\* callGemini's fetch rejects, answers non-OK, or answers without candidates
GeminiFails(c, kind) ==
    /\ c \in layoutCalls
    /\ c.stage = "upstream"
    /\ kind \in {"rejected", "notok", "nocandidates"}
    /\ layoutCalls' = (layoutCalls \ {c}) \cup
            {[c EXCEPT !.stage = "responded", !.res = [status |-> 500, html |-> <<>>]]}
    /\ UNCHANGED <<clientVars, imageCalls, requirements, env, genCalls, segCalls, bgCalls>>

\* callGemini's fetch answers with a text
GeminiReturns(c, text) ==
    /\ c \in layoutCalls
    /\ c.stage = "upstream"
    /\ layoutCalls' = (layoutCalls \ {c}) \cup
            {[c EXCEPT !.stage = "responded",
                       !.res = [status |-> 200, html |-> MarkupOf(StripFences(text))]]}
    /\ UNCHANGED <<clientVars, imageCalls, requirements, env, genCalls, segCalls, bgCalls>>

----------------------------------------------------------------------------
(* server.js: POST /api/generate-image, generateImage, removeBackgroundFun. *)

\* TogetherBody taking the prompt from a variable every request writes, so
\* that a request in flight beside another caller's sends that caller's prompt
TogetherBodyShared(c) ==
    [prompt |-> IF \E d \in imageCalls : d.origin # c.origin
                THEN (CHOOSE d \in imageCalls : d.origin # c.origin).prompt
                ELSE c.prompt,
     width |-> ValidDim(c.width), height |-> ValidDim(c.height)]

\* the body generateImage sends to the image service
TogetherBody(c) ==
    [prompt |-> c.prompt, width |-> ValidDim(c.width), height |-> ValidDim(c.height)]

\* the handler up to generateImage's fetch
ImageHandlerStart(c) ==
    /\ c \in imageCalls
    /\ c.stage = "sent"
    /\ IF ~ApiKey("together")
       THEN /\ imageCalls' = (imageCalls \ {c}) \cup
                    {[c EXCEPT !.stage = "responded", !.res = Err500]}
            /\ UNCHANGED genCalls
       ELSE /\ imageCalls' = (imageCalls \ {c}) \cup
                    {[c EXCEPT !.stage = "upstream", !.sent = TogetherBody(c)]}
            /\ genCalls' = genCalls + 1
    /\ UNCHANGED <<clientVars, layoutCalls, requirements, env, segCalls, bgCalls>>

\* generateImage's fetch rejects, answers non-OK, or answers without b64_json
TogetherFails(c, kind) ==
    /\ c \in imageCalls
    /\ c.stage = "upstream"
    /\ kind \in {"rejected", "notok", "nopayload"}
    /\ imageCalls' = (imageCalls \ {c}) \cup
            {[c EXCEPT !.stage = "responded", !.res = Err500]}
    /\ UNCHANGED <<clientVars, layoutCalls, requirements, env, genCalls, segCalls, bgCalls>>

\* generateImage's fetch answers with an image; a transparent image goes to
\* removeBackgroundFun, which runs up to its call of removeBackground
TogetherReturns(c, b64) ==
    /\ c \in imageCalls
    /\ c.stage = "upstream"
    /\ IF c.isTransparent
       THEN /\ imageCalls' = (imageCalls \ {c}) \cup
                    {[c EXCEPT !.stage = "segment", !.payload = b64,
                               !.blobType = detectImageMimeFromBuffer(FromBase64(b64))]}
            /\ segCalls' = segCalls + 1
       ELSE /\ imageCalls' = (imageCalls \ {c}) \cup
                    {[c EXCEPT !.stage = "responded", !.payload = b64,
                               !.res = Ok200(OpaqueUrl(b64))]}
            /\ UNCHANGED segCalls
    /\ UNCHANGED <<clientVars, layoutCalls, requirements, env, genCalls, bgCalls>>

\* removeBackground returns the cutout
RemoveBackgroundReturns(c, out) ==
    /\ c \in imageCalls
    /\ c.stage = "segment"
    /\ imageCalls' = (imageCalls \ {c}) \cup
            {[c EXCEPT !.stage = "responded", !.seg = "returned",
                       !.res = Ok200(SegmentedUrl(out))]}
    /\ UNCHANGED <<clientVars, layoutCalls, requirements, env, genCalls, segCalls, bgCalls>>

\* removeBackground throws: the catch block of removeBackgroundFun
RemoveBackgroundThrows(c) ==
    /\ c \in imageCalls
    /\ c.stage = "segment"
    /\ imageCalls' = (imageCalls \ {c}) \cup
            {[c EXCEPT !.stage = "responded", !.seg = "threw",
                       !.res = Ok200(FallbackUrl(c.payload))]}
    /\ UNCHANGED <<clientVars, layoutCalls, requirements, env, genCalls, segCalls, bgCalls>>

----------------------------------------------------------------------------
(* public/script.js: the click handler of the generate button. *)

NoText == [text |-> "", index |-> 0, total |-> 0]
LayoutText == [text |-> "Generating layout with Gemini...", index |-> 0, total |-> 0]
\* the template string Generating image ${i + 1} of ${images.length}...
\* ItemText counting from zero, as the loop variable does
ItemTextZeroBased(k, n) == [text |-> "Generating image", index |-> k - 1, total |-> n]

ItemText(k, n) == [text |-> "Generating image", index |-> k, total |-> n]

ValidationAlert == "Please enter your requirements first."
RunErrorAlert == "An error occurred while generating the flyer. Please try again."
FailedAlt == "Image generation failed"

\* the width and height used when the node reports none
DefaultDim == 300

\* ResolveDim asking clientWidth first
ResolveDimClientFirst(own, client) ==
    IF client # 0 THEN client ELSE IF own # 0 THEN own ELSE DefaultDim

\* img.width || img.clientWidth || 300
ResolveDim(own, client) ==
    IF own # 0 THEN own ELSE IF client # 0 THEN client ELSE DefaultDim

\* Scan in reverse document order
ScanReversed(container) ==
    LET found == SelectSeq([j \in 1..Len(container) |-> j],
                           LAMBDA j : container[j].xprompt # Null)
    IN  [k \in 1..Len(found) |-> found[Len(found) + 1 - k]]

\* Scan with the selector 'img': every img, with x-prompt or without
ScanEveryImg(container) == [j \in 1..Len(container) |-> j]

\* Scan losing the last match
ScanDropsLast(container) ==
    LET all == SelectSeq([j \in 1..Len(container) |-> j],
                         LAMBDA j : container[j].xprompt # Null)
    IN  IF all = <<>> THEN all ELSE SubSeq(all, 1, Len(all) - 1)

\* posterContainer.querySelectorAll('img[x-prompt]'), as indices in document order
Scan(container) ==
    SelectSeq([j \in 1..Len(container) |-> j],
              LAMBDA j : container[j].xprompt # Null)

\* ImageBody never asking for a transparent image
ImageBodyOpaque(img) ==
    [prompt |-> img.xprompt,
     width |-> Num(ResolveDim(img.width, img.clientWidth)),
     height |-> Num(ResolveDim(img.height, img.clientHeight)),
     isTransparent |-> FALSE]

\* ImageBody taking the presence of the transparent attribute for the flag
ImageBodyHasAttr(img) ==
    [prompt |-> img.xprompt,
     width |-> Num(ResolveDim(img.width, img.clientWidth)),
     height |-> Num(ResolveDim(img.height, img.clientHeight)),
     isTransparent |-> (img.transparent # Null)]

\* JSON.stringify({ prompt, width, height, isTransparent }) for one img
ImageBody(img) ==
    [prompt |-> img.xprompt,
     width |-> Num(ResolveDim(img.width, img.clientWidth)),
     height |-> Num(ResolveDim(img.height, img.clientHeight)),
     isTransparent |-> (img.transparent = "true")]

\* UpdateImage setting the src and no marker
UpdateImageNoMarker(img, url) == [img EXCEPT !.src = url]

\* img.src = imageUrl; img.setAttribute('data-x-image-generated', '1')
UpdateImage(img, url) == [img EXCEPT !.src = url, !.generated = "1"]

\* MarkFailed leaving the img as it is
MarkFailedNot(img) == img

\* the inner catch block: img.alt = 'Image generation failed'
MarkFailed(img) == [img EXCEPT !.alt = FailedAlt]

\* NextIndex with the item's error leaving the loop
NextIndexAbort(k, failed) == IF failed THEN Len(images) + 1 ELSE k + 1

\* NextIndex trying a failed item again
NextIndexRetry(k, failed) == IF failed THEN k ELSE k + 1

\* the index the for loop goes on with after item k; the inner catch block
\* swallows the item's error, so a failed item changes nothing
NextIndex(k, failed) == k + 1

\* IssuedAt not awaiting: the fetch of the next item is issued as well
IssuedAtAhead(imgs, k, container) ==
    { NewImageCall("page", m, ImageBody(container[imgs[m]])) :
        m \in { n \in {k, k + 1} : n <= Len(imgs) } }

\* the fetches the iteration for item k issues
IssuedAt(imgs, k, container) ==
    { NewImageCall("page", k, ImageBody(container[imgs[k]])) }

\* AlertsAfterRunError with an outer catch that only logs
AlertsAfterRunErrorNone(a) == a

\* the outer catch block: console.error and the alert
AlertsAfterRunError(a) == Append(a, RunErrorAlert)

\* AlertsAfterItemError with an inner catch that alerts as the outer one does
AlertsAfterItemErrorLoud(a) == Append(a, RunErrorAlert)

\* the inner catch block: console.error, no alert
AlertsAfterItemError(a) == a

\* a finally block that enables the button and leaves the indicator shown
FinallyKeepsLoader ==
    /\ loadingHidden' = loadingHidden
    /\ btnDisabled' = FALSE
    /\ pc' = "finished"

\* the finally block
Finally ==
    /\ loadingHidden' = TRUE
    /\ btnDisabled' = FALSE
    /\ pc' = "finished"

\* The for loop from its test for item k to its next await, or, when no item
\* is left, through the finally block. calls are the requests still in flight.
Iterate(imgs, k, container, calls) ==
    /\ i' = k
    /\ IF k <= Len(imgs)
       THEN /\ loadingText' = ItemText(k, Len(imgs))
            /\ progress' = Append(progress, ItemText(k, Len(imgs)))
            /\ imageCalls' = calls \cup IssuedAt(imgs, k, container)
            /\ pc' = "awaitImage"
            /\ UNCHANGED <<btnDisabled, loadingHidden>>
       ELSE /\ Finally
            /\ imageCalls' = calls
            /\ UNCHANGED <<loadingText, progress>>

\* a reset that leaves the generate button enabled
DisabledInRunNot == FALSE

\* generateBtn.disabled = true
DisabledInRun == TRUE

\* ClearContainer leaving the previous document in place
ClearContainerKeeps(container) == container

\* posterContainer.innerHTML = ''
ClearContainer(container) == <<>>

\* a click on the button: validation, the reset, and the layout fetch
Click(text) ==
    /\ ~btnDisabled
    /\ clicks < MaxClicks
    /\ clicks' = clicks + 1
    /\ IF Trim(text) = <<>>
       THEN /\ alerts' = <<ValidationAlert>>
            /\ UNCHANGED <<pc, posterContainer, btnDisabled, loadingHidden, loadingText,
                           layoutData, images, i, progress, delivered, served,
                           layoutCalls, genCalls, segCalls>>
       ELSE /\ alerts' = <<>>
            /\ posterContainer' = ClearContainer(posterContainer)
            /\ btnDisabled' = DisabledInRun
            /\ loadingHidden' = FALSE
            /\ loadingText' = LayoutText
            /\ layoutCalls' = layoutCalls \cup {NewLayoutCall(Trim(text))}
            /\ pc' = "awaitLayout"
            /\ layoutData' = <<>>
            /\ images' = <<>>
            /\ i' = 0
            /\ progress' = <<>>
            /\ delivered' = <<>>
            /\ served' = <<>>
            /\ genCalls' = 0
            /\ segCalls' = 0
    /\ UNCHANGED <<imageCalls, requirements, env, bgCalls>>

\* how a fetch can settle for the script: the fetch rejects (the request or
\* its response is lost), the response arrives whole, or it arrives with a
\* body that response.json() cannot read
Rejectable(c) == c.stage \in {"sent", "responded"}

\* the layout fetch rejects, answers non-OK or unreadably: the outer catch
LayoutFailed(c, net) ==
    /\ pc = "awaitLayout"
    /\ c \in layoutCalls
    /\ c.origin = "page"
    /\ \/ net = "rejected" /\ Rejectable(c)
       \/ net = "notok" /\ c.stage = "responded" /\ c.res.status # 200
       \/ net = "badbody" /\ c.stage = "responded" /\ c.res.status = 200
    /\ layoutCalls' = layoutCalls \ {c}
    /\ alerts' = AlertsAfterRunError(alerts)
    /\ Finally
    /\ UNCHANGED <<clicks, posterContainer, loadingText, layoutData, images, i, progress,
                   delivered, served, imageCalls, requirements, env, genCalls, segCalls,
                   bgCalls>>

\* the layout arrives: it is rendered and scanned, and the loop starts
LayoutArrived(c) ==
    /\ pc = "awaitLayout"
    /\ c \in layoutCalls
    /\ c.origin = "page"
    /\ c.stage = "responded"
    /\ c.res.status = 200
    /\ layoutCalls' = layoutCalls \ {c}
    /\ layoutData' = <<c.res.html>>
    /\ posterContainer' = Render(c.res.html)
    /\ images' = Scan(posterContainer')
    /\ delivered' = [k \in 1..Len(images') |-> "pending"]
    /\ served' = [k \in 1..Len(images') |-> NoCall]
    /\ Iterate(images', 1, posterContainer', imageCalls)
    /\ UNCHANGED <<clicks, alerts, requirements, env, genCalls, segCalls, bgCalls>>

\* the image fetch of item i rejects, answers non-OK or unreadably: the inner
\* catch marks the img, and the loop goes on
ImageFailed(c, net) ==
    /\ pc = "awaitImage"
    /\ c \in imageCalls
    /\ c.origin = "page"
    /\ \/ net = "rejected" /\ Rejectable(c)
       \/ net = "notok" /\ c.stage = "responded" /\ c.res.status # 200
       \/ net = "badbody" /\ c.stage = "responded" /\ c.res.status = 200
    /\ posterContainer' = [posterContainer EXCEPT ![images[i]] = MarkFailed(@)]
    /\ delivered' = [delivered EXCEPT ![i] = "failed"]
    /\ alerts' = AlertsAfterItemError(alerts)
    /\ UNCHANGED served
    /\ Iterate(images, NextIndex(i, TRUE), posterContainer', imageCalls \ {c})
    /\ UNCHANGED <<clicks, layoutData, images, layoutCalls, requirements, env,
                   genCalls, segCalls, bgCalls>>

\* the image of item i arrives: the img is updated, and the loop goes on
ImageArrived(c) ==
    /\ pc = "awaitImage"
    /\ c \in imageCalls
    /\ c.origin = "page"
    /\ c.stage = "responded"
    /\ c.res.status = 200
    /\ posterContainer' = [posterContainer EXCEPT ![images[i]] = UpdateImage(@, c.res.url)]
    /\ delivered' = [delivered EXCEPT ![i] = "ok"]
    /\ served' = [served EXCEPT ![i] = c]
    /\ Iterate(images, NextIndex(i, FALSE), posterContainer', imageCalls \ {c})
    /\ UNCHANGED <<clicks, layoutData, images, alerts, layoutCalls, requirements, env,
                   genCalls, segCalls, bgCalls>>

----------------------------------------------------------------------------
(* The page and the server. *)

Init ==
    /\ pc = "idle"
    /\ clicks = 0
    /\ posterContainer = <<>>
    /\ btnDisabled = FALSE
    /\ loadingHidden = TRUE
    /\ loadingText = NoText
    /\ layoutData = <<>>
    /\ images = <<>>
    /\ i = 0
    /\ alerts = <<>>
    /\ progress = <<>>
    /\ delivered = <<>>
    /\ served = <<>>
    /\ layoutCalls = {}
    /\ imageCalls = {}
    /\ requirements = <<>>
    /\ env \in [together : BOOLEAN, gemini : BOOLEAN]
    /\ genCalls = 0
    /\ segCalls = 0
    /\ bgCalls = {}

Server ==
    \/ \E c \in layoutCalls : LayoutHandlerStart(c)
    \/ \E c \in layoutCalls : \E kind \in {"rejected", "notok", "nocandidates"} :
            GeminiFails(c, kind)
    \/ \E c \in layoutCalls : \E text \in GeminiTexts : GeminiReturns(c, text)
    \/ \E c \in imageCalls : ImageHandlerStart(c)
    \/ \E c \in imageCalls : \E kind \in {"rejected", "notok", "nopayload"} :
            TogetherFails(c, kind)
    \/ \E c \in imageCalls : \E b64 \in GenPayloads : TogetherReturns(c, b64)
    \/ \E c \in imageCalls : \E out \in SegOutputs : RemoveBackgroundReturns(c, out)
    \/ \E c \in imageCalls : RemoveBackgroundThrows(c)

Page ==
    \/ \E text \in Briefs : Click(text)
    \/ \E c \in layoutCalls : \E net \in {"rejected", "notok", "badbody"} :
            LayoutFailed(c, net)
    \/ \E c \in layoutCalls : LayoutArrived(c)
    \/ \E c \in imageCalls : \E net \in {"rejected", "notok", "badbody"} :
            ImageFailed(c, net)
    \/ \E c \in imageCalls : ImageArrived(c)

Next == Page \/ Server

Spec == Init /\ [][Next]_vars

\* Every external call eventually returns or fails, the handlers of the
\* server go on when it does, and so does the script when a response arrives
\* or its fetch rejects: the steps that settle a request in flight.
Settling ==
    \/ Server
    \/ \E c \in layoutCalls : \E net \in {"rejected", "notok", "badbody"} :
            LayoutFailed(c, net)
    \/ \E c \in layoutCalls : LayoutArrived(c)
    \/ \E c \in imageCalls : \E net \in {"rejected", "notok", "badbody"} :
            ImageFailed(c, net)
    \/ \E c \in imageCalls : ImageArrived(c)

\* one run from the first click on: a click resets all a run works on, so
\* every later run goes through the same steps
NextLive ==
    \/ \E text \in Briefs : clicks = 0 /\ Click(text)
    \/ Settling

SpecLive == Init /\ [][NextLive]_vars /\ WF_vars(Settling)

----------------------------------------------------------------------------
(* The server called directly: any client may POST /api/generate-image    *)
(* with any width and height, or with none.                                *)

ApiDims == {Undefined} \cup { Num(n) : n \in (0 - MinDimBelow)..MaxDim }
FewDims == { Undefined, Num(0), Num(10), Num(81) }

\* a direct POST /api/generate-image
ApiPost(w, h, t) ==
    /\ imageCalls = {}
    /\ imageCalls' = { NewImageCall("api", 0,
            [prompt |-> "direct", width |-> w, height |-> h, isTransparent |-> t]) }
    /\ genCalls' = 0
    /\ segCalls' = 0
    /\ UNCHANGED <<clientVars, layoutCalls, requirements, env, bgCalls>>

\* the direct caller takes the response
ApiReceive(c) ==
    /\ c \in imageCalls
    /\ c.origin = "api"
    /\ c.stage = "responded"
    /\ imageCalls' = imageCalls \ {c}
    /\ UNCHANGED <<clientVars, layoutCalls, requirements, env, genCalls, segCalls, bgCalls>>

NextApi ==
    \/ \E w \in ApiDims, h \in FewDims, t \in BOOLEAN : ApiPost(w, h, t)
    \/ \E w \in FewDims, h \in ApiDims, t \in BOOLEAN : ApiPost(w, h, t)
    \/ \E c \in imageCalls : ApiReceive(c)
    \/ \E c \in imageCalls : ImageHandlerStart(c)
    \/ \E c \in imageCalls : \E kind \in {"rejected", "notok", "nopayload"} :
            TogetherFails(c, kind)
    \/ \E c \in imageCalls : \E b64 \in GenPayloads : TogetherReturns(c, b64)
    \/ \E c \in imageCalls : \E out \in SegOutputs : RemoveBackgroundReturns(c, out)
    \/ \E c \in imageCalls : RemoveBackgroundThrows(c)

SpecApi == Init /\ [][NextApi]_vars

\* the prompt of a direct request: a text, the empty string, or none
ApiPrompts == { "direct", "", Null }

\* a direct POST /api/generate-image with any prompt
ApiPostPrompt(p, w, t) ==
    /\ imageCalls = {}
    /\ imageCalls' = { NewImageCall("api", 0,
            [prompt |-> p, width |-> w, height |-> w, isTransparent |-> t]) }
    /\ genCalls' = 0
    /\ segCalls' = 0
    /\ UNCHANGED <<clientVars, layoutCalls, requirements, env, bgCalls>>

NextPrompt ==
    \/ \E p \in ApiPrompts, w \in FewDims, t \in BOOLEAN : ApiPostPrompt(p, w, t)
    \/ \E c \in imageCalls : ApiReceive(c)
    \/ \E c \in imageCalls : ImageHandlerStart(c)
    \/ \E c \in imageCalls : \E kind \in {"rejected", "notok", "nopayload"} :
            TogetherFails(c, kind)
    \/ \E c \in imageCalls : \E b64 \in GenPayloads : TogetherReturns(c, b64)
    \/ \E c \in imageCalls : \E out \in SegOutputs : RemoveBackgroundReturns(c, out)
    \/ \E c \in imageCalls : RemoveBackgroundThrows(c)

SpecPrompt == Init /\ [][NextPrompt]_vars

----------------------------------------------------------------------------
(* A run of the page overlapping with the requests of another caller: the  *)
(* server takes requests from any number of pages, and what another page's *)
(* run does to this process is the requests it posts, one at a time as the *)
(* script posts them.                                                      *)

\* the other caller awaits no response
OtherIdle ==
    /\ \A c \in layoutCalls : c.origin # "other"
    /\ \A c \in imageCalls : c.origin # "api"

OtherBrief == <<"o">>

\* another caller's POST /api/generate-layout
OtherPostLayout ==
    /\ OtherIdle
    /\ layoutCalls' = layoutCalls \cup
            {[NewLayoutCall(OtherBrief) EXCEPT !.origin = "other"]}
    /\ UNCHANGED <<clientVars, imageCalls, requirements, env, genCalls, segCalls, bgCalls>>

\* the other caller takes the layout response
OtherReceiveLayout(c) ==
    /\ c \in layoutCalls
    /\ c.origin = "other"
    /\ c.stage = "responded"
    /\ layoutCalls' = layoutCalls \ {c}
    /\ UNCHANGED <<clientVars, imageCalls, requirements, env, genCalls, segCalls, bgCalls>>

\* another caller's POST /api/generate-image, as its loop would send it
OtherPostImage(t) ==
    /\ OtherIdle
    /\ genCalls <= MaxOverlapNodes
    /\ imageCalls' = imageCalls \cup { NewImageCall("api", 0,
            [prompt |-> "other", width |-> Num(DefaultDim), height |-> Num(DefaultDim),
             isTransparent |-> t]) }
    /\ UNCHANGED <<clientVars, layoutCalls, requirements, env, genCalls, segCalls, bgCalls>>

\* the layouts the language model produces in the overlapping runs
OverlapDocs == UNION { [1..n -> NodeKinds] : n \in 0..MaxOverlapNodes }
OverlapTexts == { Plain(d) : d \in OverlapDocs }

NextOverlap ==
    \/ \E text \in Briefs : clicks = 0 /\ Click(text)
    \/ \E c \in layoutCalls : \E net \in {"rejected", "notok", "badbody"} :
            LayoutFailed(c, net)
    \/ \E c \in layoutCalls : LayoutArrived(c)
    \/ \E c \in imageCalls : \E net \in {"rejected", "notok", "badbody"} :
            ImageFailed(c, net)
    \/ \E c \in imageCalls : ImageArrived(c)
    \/ OtherPostLayout
    \/ \E c \in layoutCalls : OtherReceiveLayout(c)
    \/ \E t \in BOOLEAN : OtherPostImage(t)
    \/ \E c \in imageCalls : ApiReceive(c)
    \/ \E c \in layoutCalls : LayoutHandlerStart(c)
    \/ \E c \in layoutCalls : \E kind \in {"rejected", "notok", "nocandidates"} :
            GeminiFails(c, kind)
    \/ \E c \in layoutCalls : \E text \in OverlapTexts : GeminiReturns(c, text)
    \/ \E c \in imageCalls : ImageHandlerStart(c)
    \/ \E c \in imageCalls : \E kind \in {"rejected", "notok", "nopayload"} :
            TogetherFails(c, kind)
    \/ \E c \in imageCalls : \E b64 \in GenPayloads : TogetherReturns(c, b64)
    \/ \E c \in imageCalls : \E out \in SegOutputs : RemoveBackgroundReturns(c, out)
    \/ \E c \in imageCalls : RemoveBackgroundThrows(c)

SpecOverlap == Init /\ [][NextOverlap]_vars

----------------------------------------------------------------------------
(* The sizes the script reads are live: img.width and img.clientWidth are  *)
(* what the browser's layout reports when line 43 runs, inside the loop,   *)
(* after the src or alt of earlier placeholders was written. While the     *)
(* script awaits a response, an image that has loaded, or the alt text of  *)
(* a failed one, takes its place in the page, and the browser lays out     *)
(* again the elements whose size depends on it.                            *)

\* the widths a later element may be laid out to
ReflowedWidths == { 0, 33 }

\* the browser lays element j, a placeholder the loop has not reached, out
\* again after an earlier placeholder was written
Reflow(j, w) ==
    /\ pc = "awaitImage"
    /\ \E m \in 1..Len(images) :
          /\ m < i
          /\ \/ posterContainer[images[m]].src # EmptySrc
             \/ posterContainer[images[m]].alt = FailedAlt
    /\ \E m \in 1..Len(images) : m > i /\ images[m] = j
    /\ posterContainer[j].clientWidth # w
    /\ posterContainer' = [posterContainer EXCEPT ![j].clientWidth = w]
    /\ UNCHANGED <<pc, clicks, btnDisabled, loadingHidden, loadingText, layoutData,
                   images, i, alerts, progress, delivered, served, layoutCalls,
                   imageCalls, requirements, env, genCalls, segCalls, bgCalls>>

NextReflow ==
    \/ Next
    \/ \E j \in 1..MaxNodes : \E w \in ReflowedWidths : Reflow(j, w)

SpecReflow == Init /\ [][NextReflow]_vars

----------------------------------------------------------------------------
(* server.js: POST /api/remove-bg, called directly.                        *)

WebpBytes == <<82, 73, 70, 70, 0, 0, 0, 0, 87, 69, 66, 80>>
GifBytes == <<71, 73, 70, 56>>
ImageBytes == { PngBytes, JpegBytes, WebpBytes, GifBytes }
ImageMimes == { "image/png", "image/jpeg", "image/webp" }

\* Buffer.from(text, 'base64') of a text beginning with http and with data
UrlTextBytes == <<134, 219, 105>>
DataTextBytes == <<117, 171, 90>>

\* req.body.imageUrl: a data URL with its declared type, with or without the
\* ;base64, marker; an http(s) URL; a bare base64 text; an empty string; or
\* nothing
BgInput(scheme, mime, marker, given, bytes) ==
    [scheme |-> scheme, mime |-> mime, marker |-> marker, given |-> given,
     b64 |-> ToBase64(bytes)]
BgInputs ==
    { BgInput("data", m, TRUE, "text", b) : m \in ImageMimes \cup {"text/plain"},
                                            b \in ImageBytes \cup {<<>>} }
    \cup { BgInput("data", "image/png", FALSE, "text", JpegBytes) }
    \cup { BgInput("http", "", FALSE, "text", <<>>) }
    \cup { BgInput("none", "", FALSE, "text", b) : b \in ImageBytes }
    \cup { BgInput("none", "", FALSE, g, <<>>) : g \in {"empty", "missing"} }

\* MatchDataUrl accepting whatever begins with data:
MatchDataUrlAny(u) == TRUE

\* imageUrl.match(/^data:(image\/[a-zA-Z0-9.+-]+);base64,(.*)$/)
MatchDataUrl(u) == u.mime \in ImageMimes /\ u.marker

\* imageUrl.startsWith('data:image')
StartsWithDataImage(u) == u.scheme = "data" /\ u.mime \in ImageMimes

\* lines 287-291: the text that is decoded, imageUrl.split(',')[1] or imageUrl
Base64Data(u) ==
    IF StartsWithDataImage(u) THEN u.b64
    ELSE IF u.scheme = "http" THEN ToBase64(UrlTextBytes)
    ELSE IF u.scheme = "data" THEN ToBase64(DataTextBytes)
    ELSE u.b64

\* !base64Data
Base64DataFalsy(u) ==
    IF StartsWithDataImage(u) THEN u.b64.bytes = <<>> ELSE u.given # "text"

NoBlob == [given |-> FALSE, bytes |-> <<>>, type |-> ""]
\* an early return that sends nothing
Err400Unsent == NoRes

\* res.status(400).json({ error: ... })
Err400 == [status |-> 400, url |-> EmptySrc]

NewBgCall(u) ==
    [url |-> u, stage |-> "sent", fetch |-> "none", fetched |-> <<>>,
     handed |-> NoBlob, res |-> NoRes]

\* lines 286-310: from the reassignment of base64Data to the call of
\* removeBackground, with the mimeType the branches above have set
Resume(c, mimeType) ==
    IF Base64DataFalsy(c.url)
    THEN [c EXCEPT !.stage = "responded", !.res = Err400]
    ELSE LET inputBuffer == FromBase64(Base64Data(c.url))
             detectedMime == detectImageMimeFromBuffer(inputBuffer)
             mime == IF detectedMime # "application/octet-stream"
                     THEN detectedMime ELSE mimeType
         IN  [c EXCEPT !.stage = "removing",
                       !.handed = [given |-> TRUE, bytes |-> inputBuffer, type |-> mime]]

\* a direct POST /api/remove-bg
RemoveBgPost(u) ==
    /\ bgCalls = {}
    /\ bgCalls' = { NewBgCall(u) }
    /\ UNCHANGED <<clientVars, layoutCalls, imageCalls, requirements, env, genCalls,
                   segCalls>>

\* the handler up to its first await or its response
RemoveBgHandlerStart(c) ==
    /\ c \in bgCalls
    /\ c.stage = "sent"
    /\ bgCalls' = (bgCalls \ {c}) \cup
          { IF c.url.given # "missing" /\ c.url.scheme = "data"
            THEN IF ~MatchDataUrl(c.url)
                 THEN [c EXCEPT !.stage = "responded", !.res = Err400]
                 ELSE Resume(c, c.url.mime)
            ELSE IF c.url.given # "missing" /\ c.url.scheme = "http"
            THEN [c EXCEPT !.stage = "fetching"]
            ELSE Resume(c, "image/png") }
    /\ UNCHANGED <<clientVars, layoutCalls, imageCalls, requirements, env, genCalls,
                   segCalls>>

\* fetch(imageUrl) rejects or answers non-OK: the inner catch
RemoteFetchFails(c, kind) ==
    /\ c \in bgCalls
    /\ c.stage = "fetching"
    /\ kind \in {"rejected", "notok"}
    /\ bgCalls' = (bgCalls \ {c}) \cup
          {[c EXCEPT !.stage = "responded", !.fetch = "failed", !.res = Err400]}
    /\ UNCHANGED <<clientVars, layoutCalls, imageCalls, requirements, env, genCalls,
                   segCalls>>

\* fetch(imageUrl) answers with bytes and a content-type
RemoteFetchReturns(c, bytes, contentType) ==
    /\ c \in bgCalls
    /\ c.stage = "fetching"
    /\ bgCalls' = (bgCalls \ {c}) \cup
          { Resume([c EXCEPT !.fetch = "ok", !.fetched = bytes],
                   IF contentType \in ImageMimes THEN contentType ELSE "image/png") }
    /\ UNCHANGED <<clientVars, layoutCalls, imageCalls, requirements, env, genCalls,
                   segCalls>>

\* removeBackground returns: an empty output falls back to the input
RemoveBgReturns(c, out) ==
    /\ c \in bgCalls
    /\ c.stage = "removing"
    /\ bgCalls' = (bgCalls \ {c}) \cup
          {[c EXCEPT !.stage = "responded",
                     !.res = Ok200(DataUrl("image/png",
                                ToBase64(IF out = <<>> THEN c.handed.bytes ELSE out)))]}
    /\ UNCHANGED <<clientVars, layoutCalls, imageCalls, requirements, env, genCalls,
                   segCalls>>

\* removeBackground throws: the handler's catch
RemoveBgThrows(c) ==
    /\ c \in bgCalls
    /\ c.stage = "removing"
    /\ bgCalls' = (bgCalls \ {c}) \cup {[c EXCEPT !.stage = "responded", !.res = Err500]}
    /\ UNCHANGED <<clientVars, layoutCalls, imageCalls, requirements, env, genCalls,
                   segCalls>>

\* the caller takes the response
RemoveBgReceive(c) ==
    /\ c \in bgCalls
    /\ c.stage = "responded"
    /\ bgCalls' = bgCalls \ {c}
    /\ UNCHANGED <<clientVars, layoutCalls, imageCalls, requirements, env, genCalls,
                   segCalls>>

NextRemoveBg ==
    \/ \E u \in BgInputs : RemoveBgPost(u)
    \/ \E c \in bgCalls : RemoveBgHandlerStart(c)
    \/ \E c \in bgCalls : \E kind \in {"rejected", "notok"} : RemoteFetchFails(c, kind)
    \/ \E c \in bgCalls : \E bytes \in ImageBytes :
            \E contentType \in {"image/jpeg", "text/html", Null} :
                RemoteFetchReturns(c, bytes, contentType)
    \/ \E c \in bgCalls : \E out \in SegOutputs \cup {<<>>} : RemoveBgReturns(c, out)
    \/ \E c \in bgCalls : RemoveBgThrows(c)
    \/ \E c \in bgCalls : RemoveBgReceive(c)

SpecRemoveBg == Init /\ [][NextRemoveBg]_vars

----------------------------------------------------------------------------
(* callGemini's cleaning, character by character. "tick" is the backtick,  *)
(* "html" the four letters after an opening fence, "x" any other           *)
(* character.                                                              *)

TextChars == { "tick", "html", "x" }
Texts == UNION { [1..n -> TextChars] : n \in 0..MaxTextLen }

FenceHtml == <<"tick", "tick", "tick", "html">>
Fence == <<"tick", "tick", "tick">>

\* ReplaceAll without the g flag: the first match only
RECURSIVE ReplaceFirst(_, _)
ReplaceFirst(text, pat) ==
    IF Len(text) < Len(pat) THEN text
    ELSE IF SubSeq(text, 1, Len(pat)) = pat
         THEN SubSeq(text, Len(pat) + 1, Len(text))
         ELSE <<Head(text)>> \o ReplaceFirst(Tail(text), pat)

\* text.replace(/pat/g, ''): the matches are found from the left and do not
\* overlap
RECURSIVE ReplaceAll(_, _)
ReplaceAll(text, pat) ==
    IF Len(text) < Len(pat) THEN text
    ELSE IF SubSeq(text, 1, Len(pat)) = pat
         THEN ReplaceAll(SubSeq(text, Len(pat) + 1, Len(text)), pat)
         ELSE <<Head(text)>> \o ReplaceAll(Tail(text), pat)

\* text.replace(/FENCEhtml/g, '').replace(/FENCE/g, ''), FENCE being three backticks
CleanText(text) == ReplaceAll(ReplaceAll(text, FenceHtml), Fence)

\* callGemini's fetch answers with a text: the handler answers with the
\* cleaned text
GeminiReturnsText(c, text) ==
    /\ c \in layoutCalls
    /\ c.stage = "upstream"
    /\ layoutCalls' = (layoutCalls \ {c}) \cup
            {[c EXCEPT !.stage = "responded",
                       !.res = [status |-> 200, html |-> CleanText(text), text |-> text]]}
    /\ UNCHANGED <<clientVars, imageCalls, requirements, env, genCalls, segCalls, bgCalls>>

NextClean ==
    \/ OtherPostLayout
    \/ \E c \in layoutCalls : LayoutHandlerStart(c)
    \/ \E c \in layoutCalls : \E kind \in {"rejected", "notok", "nocandidates"} :
            GeminiFails(c, kind)
    \/ \E c \in layoutCalls : \E text \in Texts : GeminiReturnsText(c, text)
    \/ \E c \in layoutCalls : OtherReceiveLayout(c)

SpecClean == Init /\ [][NextClean]_vars

----------------------------------------------------------------------------
(* The vocabulary of the properties. *)

\* a placeholder is Resolved when it carries the generated marker, Failed
\* when it carries the failure marker, Pending otherwise
Resolved(img) == img.generated = "1"
Failed(img) == img.alt = FailedAlt
Terminal(img) == Resolved(img) \/ Failed(img)
Pending(img) == ~Terminal(img)

\* the k-th placeholder of the run
P(k) == posterContainer[images[k]]

\* the placeholders of a markup: its elements with a generation prompt
PlaceholdersOf(html) == { j \in 1..Len(html) : html[j].xprompt # Null }

\* the layout arrived in this run
HasLayout == layoutData # <<>>

\* N: the placeholders of the run's layout
Total == IF HasLayout THEN Cardinality(PlaceholdersOf(layoutData[1])) ELSE 0

Completed ==
    Cardinality({ j \in PlaceholdersOf(posterContainer) : Resolved(posterContainer[j]) })
FailedCount ==
    Cardinality({ j \in PlaceholdersOf(posterContainer) : Failed(posterContainer[j]) })

\* the handler has returned from a run whose layout arrived
RunCompleted == pc = "finished" /\ HasLayout

PageCalls == { c \in imageCalls : c.origin = "page" }

----------------------------------------------------------------------------
(* C1: a placeholder whose image request failed is Failed, and the loop    *)
(* goes on: while the run lasts the loop is past it, and when the run has  *)
(* ended every later placeholder was attempted and is Resolved or Failed.  *)
C1_FailureIsolation ==
    \A k \in 1..Len(delivered) :
        delivered[k] = "failed" =>
            /\ k <= Len(images)
            /\ Failed(P(k))
            /\ ~Resolved(P(k))
            /\ \/ pc = "awaitImage" /\ i > k /\ i <= Len(images)
               \/ /\ pc = "finished"
                  /\ \A m \in (k + 1)..Len(images) :
                        delivered[m] # "pending" /\ Terminal(P(m))

\* a run of three placeholders has ended: the first failed, the second was
\* resolved after it, the third failed as well
C1_Witness ==
    /\ RunCompleted
    /\ Total = 3
    /\ delivered = <<"failed", "ok", "failed">>
    /\ Failed(P(1)) /\ Resolved(P(2)) /\ Failed(P(3))

(* C2: a run over a layout of N placeholders emits N per-item progress     *)
(* texts, never more, and ends with completed + failed = N.                *)
C2_CountsAddUp ==
    /\ Len(progress) <= Total
    /\ RunCompleted =>
        /\ Len(progress) = Total
        /\ Completed + FailedCount = Total

\* a run of three placeholders has ended with one resolved and two failed
C2_Witness ==
    /\ RunCompleted
    /\ Total = 3
    /\ Len(progress) = 3
    /\ Completed = 1
    /\ FailedCount = 2

\* the case of C3: the placeholder is transparent, its image was generated,
\* removeBackground threw, and the script took the response
SegmentationFailed(k) ==
    /\ delivered[k] = "ok"
    /\ P(k).transparent = "true"
    /\ served[k].seg = "threw"

(* C3 as stated: a transparent placeholder whose background removal        *)
(* failed is Resolved with the very reference the generator result gives   *)
(* without the transparency pass.                                          *)
C3_SameReferenceAsOpaque ==
    \A k \in 1..Len(delivered) :
        SegmentationFailed(k) =>
            /\ Resolved(P(k))
            /\ ~Failed(P(k))
            /\ P(k).src = OpaqueUrl(served[k].payload)

(* C3 as amended: a transparent placeholder whose background removal       *)
(* failed is Resolved, never Failed, and its reference holds the           *)
(* generator's base64 payload unchanged, as a data URL tagged image/png,   *)
(* where the pass without transparency tags the same payload image/jpeg.   *)
C3_FallbackKeepsPayload ==
    \A k \in 1..Len(delivered) :
        SegmentationFailed(k) =>
            /\ Resolved(P(k))
            /\ ~Failed(P(k))
            /\ served[k].payload \in GenPayloads
            /\ P(k).src.b64 = served[k].payload
            /\ P(k).src.mime = "image/png"
            /\ OpaqueUrl(served[k].payload).b64 = P(k).src.b64
            /\ OpaqueUrl(served[k].payload).mime = "image/jpeg"

\* a run has ended in which the background removal of a transparent
\* placeholder failed
C3_Witness ==
    /\ RunCompleted
    /\ \E k \in 1..Len(delivered) : SegmentationFailed(k) /\ Resolved(P(k))

(* C4: the placeholders are resolved in document order, one at a time: at  *)
(* most one image request of the page is in flight, it is the request of   *)
(* item i, every earlier placeholder is terminal and no later one is.      *)
C4_OneAtATime ==
    /\ Cardinality(PageCalls) <= 1
    /\ \A a, b \in 1..Len(images) : a < b => images[a] < images[b]
    /\ \A c \in PageCalls :
        /\ pc = "awaitImage"
        /\ c.k = i
        /\ \A m \in 1..Len(images) : Terminal(P(m)) <=> m < c.k
    /\ \A k \in 1..Len(progress) : progress[k].index = k

\* the request of the third placeholder is in flight, the first two are terminal
C4_Witness ==
    \E c \in PageCalls :
        /\ c.k = 3
        /\ c.stage = "upstream"
        /\ Terminal(P(1)) /\ Terminal(P(2)) /\ Pending(P(3))

\* what one step may do to the nodes of the document within a run: only a
\* Pending placeholder changes, it becomes Resolved or Failed and not both,
\* and only its src, generated marker and alt change
C5_Step ==
    clicks' = clicks =>
        \A j \in 1..Len(posterContainer) :
            /\ j <= Len(posterContainer')
            /\ posterContainer'[j] # posterContainer[j] =>
                /\ Pending(posterContainer[j])
                /\ Terminal(posterContainer'[j])
                /\ ~(Resolved(posterContainer'[j]) /\ Failed(posterContainer'[j]))
                /\ posterContainer'[j] =
                     [posterContainer[j] EXCEPT !.src = posterContainer'[j].src,
                                                !.generated = posterContainer'[j].generated,
                                                !.alt = posterContainer'[j].alt]

\* no item is started twice, and a run that has ended left no placeholder Pending
C5_NoRevisit ==
    /\ \A a, b \in 1..Len(progress) : a # b => progress[a].index # progress[b].index
    /\ RunCompleted => \A k \in 1..Len(images) : Terminal(P(k))

(* C5: within a run a placeholder changes once, from Pending to Resolved   *)
(* or Failed; a terminal placeholder never changes again and no            *)
(* placeholder is processed a second time.                                 *)
C5_ResolvedOnce == [][C5_Step]_vars /\ []C5_NoRevisit

\* a run of two placeholders has ended, the first Failed and the second Resolved
C5_Witness ==
    /\ RunCompleted
    /\ Len(images) = 2
    /\ Failed(P(1)) /\ ~Resolved(P(1))
    /\ Resolved(P(2)) /\ ~Failed(P(2))

\* the requests generateImage has sent a body to the image service for
Forwarded == { c \in imageCalls : c.sent # NoSent }

(* C6: a width or height below 64, zero and negative ones included, is     *)
(* sent to the image service as a value of at least 64.                    *)
C6_ClampedUp ==
    \A c \in Forwarded :
        /\ LessThan(c.width, MinSize) => c.sent.width.v >= MinSize
        /\ LessThan(c.height, MinSize) => c.sent.height.v >= MinSize

\* width 10 and height 10 were sent on as 64 and 64
C6_Witness ==
    \E c \in Forwarded :
        /\ c.width = Num(10) /\ c.height = Num(10)
        /\ c.sent.width = Num(64) /\ c.sent.height = Num(64)

\* |a - b|
Dist(a, b) == IF a >= b THEN a - b ELSE b - a

\* what C7 says of one dimension x and the value y sent for it
C7_Rounded(x, y) ==
    x.t = "number" =>
        /\ y.t = "number"
        /\ y.v % Multiple = 0
        /\ y.v >= MinSize
        /\ x.v >= MinSize => Dist(y.v, x.v) <= 8

(* C7: for an integer width or height the value sent to the image service  *)
(* is a multiple of 16, at least 64, and within 8 of an input of 64 or     *)
(* more.                                                                   *)
C7_MultipleOf16 ==
    \A c \in Forwarded :
        /\ C7_Rounded(c.width, c.sent.width)
        /\ C7_Rounded(c.height, c.sent.height)

\* width 70 and height 81 were sent on as 64 and 80
C7_Witness ==
    \E c \in Forwarded :
        /\ c.width = Num(70) /\ c.height = Num(81)
        /\ c.sent.width = Num(64) /\ c.sent.height = Num(80)

\* what C8 says of one dimension: own is what the node itself gives for it,
\* measured its measured size, used the value of the request
C8_FirstSource(own, measured, used) ==
    /\ own > 0 => used = Num(own)
    /\ own = 0 /\ measured > 0 => used = Num(measured)
    /\ own = 0 /\ measured = 0 => used = Num(300)
    /\ used.v > 0

(* C8: the width and the height of a request are resolved each on its own, *)
(* by the node's own value, else its measured size, else 300; 300 is taken *)
(* only when the two others give no positive value.                        *)
C8_DimensionSources ==
    \A c \in PageCalls :
        /\ C8_FirstSource(P(c.k).width, P(c.k).clientWidth, c.width)
        /\ C8_FirstSource(P(c.k).height, P(c.k).clientHeight, c.height)

\* three requests of one run: width from the node and height measured, then
\* width measured and height by default, then width by default and height
\* from the node
C8_Witness ==
    /\ Len(images) = 3
    /\ delivered[1] = "ok" /\ served[1].width = Num(10) /\ served[1].height = Num(81)
    /\ delivered[2] = "ok" /\ served[2].width = Num(70) /\ served[2].height = Num(300)
    /\ \E c \in PageCalls :
          c.k = 3 /\ c.width = Num(300) /\ c.height = Num(200)

(* C9: when a run has ended, the Resolved placeholders are those whose     *)
(* image request succeeded and the Failed ones those whose request failed, *)
(* and completed and failed count them.                                    *)
C9_CountsMatchOutcomes ==
    RunCompleted =>
        /\ Len(delivered) = Total
        /\ \A k \in 1..Len(delivered) :
            /\ delivered[k] = "ok" <=> Resolved(P(k))
            /\ delivered[k] = "failed" <=> Failed(P(k))
            /\ Resolved(P(k)) => served[k].payload \in GenPayloads
                                 /\ P(k).src = served[k].res.url
        /\ Completed = Cardinality({ k \in 1..Len(delivered) : delivered[k] = "ok" })
        /\ FailedCount = Cardinality({ k \in 1..Len(delivered) : delivered[k] = "failed" })

\* three placeholders, only the second request failed: 1 and 3 are Resolved,
\* 2 is Failed, completed = 2 and failed = 1
C9_Witness ==
    /\ RunCompleted
    /\ delivered = <<"ok", "failed", "ok">>
    /\ Resolved(P(1)) /\ Failed(P(2)) /\ Resolved(P(3))
    /\ Completed = 2
    /\ FailedCount = 1

(* C10: a layout without placeholders ends the run at once, with           *)
(* completed = 0 and failed = 0, no image request and no call of the image *)
(* service or of removeBackground.                                         *)
C10_EmptyLayout ==
    (HasLayout /\ Total = 0) =>
        /\ pc = "finished"
        /\ Completed = 0
        /\ FailedCount = 0
        /\ progress = <<>>
        /\ PageCalls = {}
        /\ genCalls = 0
        /\ segCalls = 0

\* a run has ended whose layout had an img, but none with a prompt
C10_Witness ==
    /\ RunCompleted
    /\ Total = 0
    /\ Len(posterContainer) = 1
    /\ genCalls = 0

----------------------------------------------------------------------------
(* C11: a placeholder whose transparent attribute is not "true" and whose  *)
(* image request succeeded went through no background removal, and its src *)
(* is the handle the generator's image was wrapped in: the jpeg data URL   *)
(* of the payload the upstream service returned. A run none of whose       *)
(* placeholders is transparent makes no background-removal call at all.    *)
C11_OpaqueSkipsSegmentation ==
    /\ \A k \in 1..Len(images) :
         (delivered[k] = "ok" /\ P(k).transparent # "true") =>
            /\ ~served[k].isTransparent
            /\ served[k].seg = "none"
            /\ served[k].blobType = ""
            /\ served[k].payload \in GenPayloads
            /\ served[k].res = Ok200(OpaqueUrl(served[k].payload))
            /\ P(k).src = OpaqueUrl(served[k].payload)
            /\ Resolved(P(k))
    /\ (HasLayout /\ \A k \in 1..Len(images) : P(k).transparent # "true") =>
            /\ segCalls = 0
            /\ \A c \in PageCalls : c.stage # "segment" /\ c.seg = "none"

\* two placeholders, neither transparent, both Resolved with the handles of
\* two different payloads, and no background removal in the run
C11_Witness ==
    /\ RunCompleted
    /\ Len(images) = 2
    /\ P(1).transparent = "false" /\ P(2).transparent = Null
    /\ Resolved(P(1)) /\ Resolved(P(2))
    /\ P(1).src # P(2).src
    /\ segCalls = 0

----------------------------------------------------------------------------
(* C12: when the layout request fails (the fetch rejects, the response is  *)
(* not OK or its body is unreadable) the run ends at once: the container   *)
(* stays empty, no placeholder exists, no image request, no upstream       *)
(* generation and no background removal was made, and the run raised       *)
(* exactly one alert, the run error (which a later click that validation   *)
(* rejects replaces by its own alert).                                     *)
C12_LayoutFailureAborts ==
    (pc = "finished" /\ ~HasLayout) =>
        /\ posterContainer = <<>>
        /\ images = <<>>
        /\ progress = <<>>
        /\ delivered = <<>>
        /\ PageCalls = {}
        /\ genCalls = 0
        /\ segCalls = 0
        /\ ~btnDisabled
        /\ \/ alerts = <<RunErrorAlert>>
           \/ alerts = <<ValidationAlert>> /\ clicks > 1

\* a run whose layout request failed has just ended
C12_Witness ==
    /\ pc = "finished"
    /\ ~HasLayout
    /\ clicks = 1
    /\ alerts = <<RunErrorAlert>>

----------------------------------------------------------------------------
(* C13: the run error is raised only when the layout step failed. Once the *)
(* layout arrived no alert is raised by the run, however many image        *)
(* requests or background removals fail.                                    *)
C13_RunErrorOnlyFromLayout ==
    /\ Len(alerts) <= 1
    /\ \A j \in 1..Len(alerts) :
         alerts[j] = RunErrorAlert => (pc = "finished" /\ ~HasLayout)
    /\ HasLayout => \A j \in 1..Len(alerts) : alerts[j] = ValidationAlert
    /\ (HasLayout /\ pc # "finished") => alerts = <<>>

\* every image request of a run of three failed and no alert was raised
C13_Witness ==
    /\ RunCompleted
    /\ Total = 3
    /\ FailedCount = 3
    /\ alerts = <<>>

----------------------------------------------------------------------------
(* C14: a click with an empty or whitespace-only brief raises the          *)
(* validation alert at once and makes no request: no layout call, no image *)
(* call, no upstream generation and no background removal is started.      *)
Blank(text) == \A j \in 1..Len(text) : text[j] = " "

C14_Step ==
    \A text \in Briefs :
        (Blank(text) /\ Click(text)) =>
            /\ alerts' = <<ValidationAlert>>
            /\ UNCHANGED <<pc, layoutCalls, imageCalls, genCalls, segCalls>>

C14_BlankBriefRejected == [][C14_Step]_vars

\* the first click was rejected by validation
C14_Witness ==
    /\ clicks = 1
    /\ pc = "idle"
    /\ alerts = <<ValidationAlert>>
    /\ layoutCalls = {}

----------------------------------------------------------------------------
(* C15: a placeholder has a generated src exactly when it has the          *)
(* generated marker, which is exactly when its request succeeded; it has   *)
(* the failure marker exactly when its request failed; none has both, and  *)
(* a placeholder whose request has not settled has neither.                *)
C15_MarkersMatchState ==
    \A k \in 1..Len(images) :
        /\ delivered[k] = "ok" <=> Resolved(P(k))
        /\ Resolved(P(k)) <=> P(k).src # EmptySrc
        /\ delivered[k] = "failed" <=> Failed(P(k))
        /\ ~(Resolved(P(k)) /\ Failed(P(k)))
        /\ ~(P(k).src # EmptySrc /\ P(k).alt = FailedAlt)
        /\ delivered[k] = "pending" =>
              (P(k).src = EmptySrc /\ P(k).generated = Null /\ P(k).alt = "")

\* one placeholder Resolved, one Failed, one still Pending
C15_Witness ==
    /\ Len(images) = 3
    /\ Resolved(P(1)) /\ P(1).src # EmptySrc
    /\ Failed(P(2)) /\ P(2).src = EmptySrc
    /\ Pending(P(3))

----------------------------------------------------------------------------
(* C16: no request is repeated. The image requests issued so far are one   *)
(* per placeholder the loop has reached (the settled ones and the one in   *)
(* flight), a settled placeholder has no request in flight, and the        *)
(* upstream generation calls are at most one per request.                  *)
Settled == { k \in 1..Len(images) : delivered[k] # "pending" }

C16_NoRetry ==
    HasLayout =>
        /\ Cardinality(Settled) + Cardinality(PageCalls) = Len(progress)
        /\ Len(progress) <= Total
        /\ genCalls <= Len(progress)
        /\ \A c \in PageCalls : delivered[c.k] = "pending"
        /\ \A a, b \in 1..Len(progress) :
               a # b => progress[a].index # progress[b].index
        /\ RunCompleted => Cardinality(Settled) = Total

\* a run of three ended with a failure that was not retried: three
\* requests, three upstream calls, one placeholder Failed
C16_Witness ==
    /\ RunCompleted
    /\ Total = 3
    /\ Len(progress) = 3
    /\ genCalls = 3
    /\ FailedCount = 1
    /\ Failed(P(2))

----------------------------------------------------------------------------
(* C17: the prompt the layout handler forwards to the language model is    *)
(* built from the brief of the request it serves: the user part of the     *)
(* forwarded prompt is that brief, so requests with different briefs       *)
(* forward different prompts.                                              *)
C17_PromptFromBrief ==
    /\ \A c \in layoutCalls :
          c.stage = "upstream" => c.sent = FullPrompt(c.requirements)
    /\ \A c, d \in layoutCalls :
          (c.stage = "upstream" /\ d.stage = "upstream"
                /\ c.requirements # d.requirements) => c.sent # d.sent

----------------------------------------------------------------------------
(* C18: a run that overlaps with another caller's requests is served from  *)
(* its own requests alone. Every upstream image request is built from the  *)
(* body of the request it serves and every response from the payload that  *)
(* request received; the page takes, for its i-th placeholder, the         *)
(* response to the request it made for that placeholder; and the variable  *)
(* every layout request writes never holds anything a request brought, so  *)
(* the prompt a layout request forwards does not depend on the other       *)
(* requests in flight.                                                     *)
C18_RunsDoNotInteract ==
    /\ \A c \in imageCalls :
          /\ c.sent # NoSent =>
                c.sent = [prompt |-> c.prompt, width |-> ValidDim(c.width),
                          height |-> ValidDim(c.height)]
          /\ (c.stage = "responded" /\ c.res.status = 200) =>
                /\ c.payload \in GenPayloads
                /\ c.seg = "none" => c.res.url = OpaqueUrl(c.payload)
                /\ c.seg = "threw" => c.res.url = FallbackUrl(c.payload)
                /\ c.seg # "none" <=> c.isTransparent
    /\ Cardinality(PageCalls) <= 1
    /\ \A c \in PageCalls :
          /\ c.k = i
          /\ c.prompt = P(c.k).xprompt
          /\ c.isTransparent <=> P(c.k).transparent = "true"
    /\ \A k \in 1..Len(images) :
          delivered[k] = "ok" =>
              /\ served[k].origin = "page"
              /\ served[k].k = k
              /\ served[k].prompt = P(k).xprompt
              /\ served[k].sent.prompt = P(k).xprompt
              /\ P(k).src = served[k].res.url
    /\ requirements \in {<<>>, FixedRequirements}
    /\ \A c \in layoutCalls :
          c.stage = "upstream" => c.sent = FullPrompt(FixedRequirements)

\* the page's request and another caller's are at the image service at the
\* same time, each with its own prompt, after both callers' layout requests
\* went through the handler
C18_Witness ==
    /\ \E c \in PageCalls : \E d \in imageCalls :
          /\ d.origin = "api"
          /\ c.stage = "upstream" /\ d.stage = "upstream"
          /\ c.sent.prompt # d.sent.prompt
    /\ requirements = FixedRequirements

----------------------------------------------------------------------------
(* C19: scanning reads the document and changes nothing. Scanning the      *)
(* container again at any point of the run gives the sequence the run      *)
(* works on, which is also the scan of the freshly rendered layout: the    *)
(* placeholders of the markup in document order, each with the prompt and  *)
(* the transparent attribute the markup gave it. Until a request settles   *)
(* the container is the rendered layout, untouched.                        *)
C19_ScanIsPure ==
    HasLayout =>
        /\ Scan(posterContainer) = images
        /\ Scan(Render(layoutData[1])) = images
        /\ { images[k] : k \in 1..Len(images) } = PlaceholdersOf(layoutData[1])
        /\ \A a, b \in 1..Len(images) : a < b => images[a] < images[b]
        /\ Len(posterContainer) = Len(layoutData[1])
        /\ \A j \in 1..Len(posterContainer) :
              /\ posterContainer[j].xprompt = layoutData[1][j].xprompt
              /\ posterContainer[j].transparent = layoutData[1][j].transparent
        /\ (\A k \in 1..Len(images) : delivered[k] = "pending") =>
              posterContainer = Render(layoutData[1])

\* a layout of three elements, the second of which is no placeholder, was
\* scanned, and the first placeholder has since been Resolved
C19_Witness ==
    /\ HasLayout
    /\ Len(posterContainer) = 3
    /\ images = <<1, 3>>
    /\ Resolved(P(1))
    /\ Pending(P(2))

----------------------------------------------------------------------------
(* C20: the progress texts of a run are "image k of N" for k = 1, 2, ...   *)
(* in this order, each with the N of the run's scan. The text of a         *)
(* placeholder is shown when its request is in flight, every placeholder   *)
(* before the latest text is Resolved or Failed, every placeholder after   *)
(* it is Pending, and a completed run has shown all N texts.               *)
C20_ProgressInOrder ==
    HasLayout =>
        /\ \A k \in 1..Len(progress) :
              /\ progress[k].index = k
              /\ progress[k].total = Total
        /\ Len(progress) <= Total
        /\ \A c \in PageCalls :
              /\ c.k = Len(progress)
              /\ loadingText = progress[c.k]
        /\ \A m \in 1..Len(images) :
              /\ m < Len(progress) => Terminal(P(m))
              /\ m > Len(progress) => Pending(P(m))
        /\ RunCompleted => Len(progress) = Total

\* the third of three texts is shown while the third request is in flight
C20_Witness ==
    /\ Len(progress) = 3
    /\ progress[3].index = 3 /\ progress[3].total = 3
    /\ loadingText = progress[3]
    /\ \E c \in PageCalls : c.k = 3
    /\ Terminal(P(1)) /\ Terminal(P(2))

----------------------------------------------------------------------------
(* C21: removeBackground is called once for every transparent placeholder  *)
(* whose generation succeeded, on the payload that generation returned,    *)
(* and for no other: a request that got no payload never reaches it, a     *)
(* request that is not transparent never reaches it, and the calls of a    *)
(* run are as many as its transparent requests that got a payload.         *)
TransparentOk == { k \in 1..Len(images) :
                      delivered[k] = "ok" /\ P(k).transparent = "true" }
TransparentLost == { k \in 1..Len(images) :
                      delivered[k] = "failed" /\ P(k).transparent = "true" }
TransparentInFlight == { c \in PageCalls : c.isTransparent /\ c.payload # NoData }

C21_SegmentationOncePerSuccess ==
    /\ \A k \in TransparentOk :
          /\ served[k].isTransparent
          /\ served[k].seg \in {"returned", "threw"}
          /\ served[k].payload \in GenPayloads
          /\ served[k].blobType = detectImageMimeFromBuffer(FromBase64(served[k].payload))
    /\ \A c \in PageCalls :
          /\ (c.stage = "segment" \/ c.seg # "none") =>
                /\ c.isTransparent
                /\ P(c.k).transparent = "true"
                /\ c.payload \in GenPayloads
          /\ c.payload = NoData => (c.stage # "segment" /\ c.seg = "none")
          /\ (c.stage = "responded" /\ c.res.status = 500) => c.seg = "none"
    /\ HasLayout =>
          /\ segCalls >= Cardinality(TransparentOk) + Cardinality(TransparentInFlight)
          /\ segCalls <= Cardinality(TransparentOk) + Cardinality(TransparentInFlight)
                            + Cardinality(TransparentLost)
          /\ segCalls <= genCalls

\* a run of three: the first placeholder is transparent and Resolved after
\* one background removal, the second is transparent and its generation
\* failed, the third is not transparent
C21_Witness ==
    /\ RunCompleted
    /\ Total = 3
    /\ P(1).transparent = "true" /\ Resolved(P(1))
    /\ P(2).transparent = "true" /\ Failed(P(2))
    /\ P(3).transparent # "true" /\ Resolved(P(3))
    /\ segCalls = 1
    /\ genCalls = 3

----------------------------------------------------------------------------
(* C22: what is sent for a placeholder is fixed by the scan: the prompt,   *)
(* the transparent flag and the width and height of its request are those  *)
(* the freshly rendered layout gives, whatever happened to the             *)
(* placeholders before it.                                                 *)
C22_FixedByScan ==
    HasLayout =>
        \A c \in PageCalls :
            LET atScan == Render(layoutData[1])[images[c.k]]
            IN  /\ c.prompt = atScan.xprompt
                /\ c.isTransparent <=> atScan.transparent = "true"
                /\ c.width = Num(ResolveDim(atScan.width, atScan.clientWidth))
                /\ c.height = Num(ResolveDim(atScan.height, atScan.clientHeight))

----------------------------------------------------------------------------
(* C23: when every request in flight is eventually settled, a run that     *)
(* has started ends: the handler returns. When it has returned, either the *)
(* layout step failed or every placeholder of the document is Resolved or  *)
(* Failed, and no request of the run is left in flight.                    *)
C23_EndsClean ==
    pc = "finished" =>
        /\ PageCalls = {}
        /\ \A c \in layoutCalls : c.origin # "page"
        /\ ~btnDisabled
        /\ HasLayout =>
              /\ Len(images) = Total
              /\ \A k \in 1..Len(images) : Terminal(P(k)) /\ delivered[k] # "pending"

C23_RunTerminates ==
    /\ []C23_EndsClean
    /\ (pc \in {"awaitLayout", "awaitImage"}) ~> (pc = "finished")

\* a run of three has ended with two placeholders Resolved and one Failed
C23_Witness ==
    /\ RunCompleted
    /\ Total = 3
    /\ Completed = 2
    /\ FailedCount = 1
    /\ PageCalls = {}
    /\ ~btnDisabled

----------------------------------------------------------------------------
(* C24: the image handler answers 200 with a url exactly when the image    *)
(* service returned a payload; without the API key, on a non-OK upstream   *)
(* response or on a response without payload it answers 500 without url.   *)
(* The script marks the placeholder of a failed request Failed and nothing *)
(* else: no alert is raised and the other placeholders are untouched.      *)
C24_ErrorStatusWithoutUrl ==
    /\ \A c \in imageCalls :
          c.stage = "responded" =>
              /\ c.res.status \in {200, 500}
              /\ c.res.status = 200 <=> c.payload \in GenPayloads
              /\ c.res.status = 200 => (c.res.url # EmptySrc /\ c.sent # NoSent)
              /\ c.res.status = 500 => (c.res.url = EmptySrc /\ c.payload = NoData)
              /\ ~env.together => (c.res.status = 500 /\ c.sent = NoSent)
    /\ \A k \in 1..Len(images) :
          /\ delivered[k] = "failed" => (Failed(P(k)) /\ P(k).src = EmptySrc)
          /\ delivered[k] = "pending" => Pending(P(k))
    /\ (HasLayout /\ pc # "finished") => alerts = <<>>
    /\ (RunCompleted /\ ~env.together) => (FailedCount = Total /\ genCalls = 0)

\* the API key of the image service is missing: both requests of a run of
\* two were answered 500, both placeholders are Failed, no alert
C24_Witness ==
    /\ RunCompleted
    /\ ~env.together
    /\ Total = 2
    /\ FailedCount = 2
    /\ alerts = <<>>

----------------------------------------------------------------------------
(* C25: a request to /api/generate-image whose prompt is empty or missing  *)
(* is rejected before the image service is called: it never reaches the    *)
(* upstream request, and every upstream request carries a non-empty        *)
(* prompt.                                                                 *)
C25_PromptNonEmpty ==
    \A c \in imageCalls :
        /\ (c.prompt = "" \/ c.prompt = Null) =>
              (c.stage \notin {"upstream", "segment"} /\ c.sent = NoSent
                    /\ c.payload = NoData)
        /\ c.stage = "upstream" => (c.sent.prompt # "" /\ c.sent.prompt # Null)

----------------------------------------------------------------------------
(* C26: a new run empties the container before its layout request is       *)
(* made: while the layout is awaited and after a failed layout step the    *)
(* container is empty, and once the layout arrived every element of the    *)
(* container is the freshly rendered element of this run's layout, except  *)
(* for the placeholders this run's own requests have settled.              *)
C26_PreviousDocumentDiscarded ==
    /\ pc = "awaitLayout" => (posterContainer = <<>> /\ PageCalls = {})
    /\ (pc = "finished" /\ ~HasLayout) => posterContainer = <<>>
    /\ HasLayout =>
          /\ Len(posterContainer) = Len(layoutData[1])
          /\ \A j \in 1..Len(posterContainer) :
                (\A k \in 1..Len(images) : images[k] = j => delivered[k] = "pending")
                    => posterContainer[j] = Render(layoutData[1])[j]
          /\ \A k \in 1..Len(images) :
                delivered[k] = "ok" => (served[k].k = k /\ P(k).src = served[k].res.url)

\* the second click started a run after an earlier layout request went
\* through the handler: the container is empty while the layout is awaited
C26_Witness ==
    /\ clicks = 2
    /\ pc = "awaitLayout"
    /\ requirements = FixedRequirements
    /\ \E c \in layoutCalls : c.stage = "sent"
    /\ posterContainer = <<>>

----------------------------------------------------------------------------
(* C27: the type of the blob handed to removeBackground is taken from the  *)
(* bytes: bytes that begin with the PNG, JPEG or WebP signature are handed *)
(* over as image/png, image/jpeg or image/webp, whatever type the data URL *)
(* or the content-type declared. Bytes of no known signature keep the      *)
(* declared type.                                                          *)
HasPrefix(bytes, sig) == Len(bytes) >= Len(sig) /\ SubSeq(bytes, 1, Len(sig)) = sig
IsWebp(bytes) ==
    /\ HasPrefix(bytes, <<82, 73, 70, 70>>)
    /\ Len(bytes) >= 11
    /\ SubSeq(bytes, 9, 11) = <<87, 69, 66>>

C27_MimeSniffed ==
    \A c \in bgCalls :
        c.handed.given =>
            /\ HasPrefix(c.handed.bytes, <<137, 80, 78, 71>>) => c.handed.type = "image/png"
            /\ HasPrefix(c.handed.bytes, <<255, 216, 255>>) => c.handed.type = "image/jpeg"
            /\ IsWebp(c.handed.bytes) => c.handed.type = "image/webp"
            /\ (c.url.scheme = "data" /\ c.handed.bytes = GifBytes) =>
                  c.handed.type = c.url.mime

\* a data URL declared image/png whose bytes are a JPEG is handed over as
\* image/jpeg
C27_Witness ==
    \E c \in bgCalls :
        /\ c.url.scheme = "data"
        /\ c.url.mime = "image/png"
        /\ c.stage = "removing"
        /\ c.handed.bytes = JpegBytes
        /\ c.handed.type = "image/jpeg"

----------------------------------------------------------------------------
(* C28: for an http(s) imageUrl whose fetch succeeded, the bytes handed to *)
(* removeBackground are the bytes fetched from that URL.                   *)
C28_RemoteBytesHanded ==
    \A c \in bgCalls :
        (c.url.scheme = "http" /\ c.fetch = "ok" /\ c.handed.given) =>
            c.handed.bytes = c.fetched

----------------------------------------------------------------------------
(* C29: a data URL that is not of the form data:image/<type>;base64,<payload>, *)
(* an http(s) URL whose fetch failed, and a missing or empty imageUrl are  *)
(* answered 400, and removeBackground is not called for them.              *)
BadBgInput(c) ==
    \/ c.url.scheme = "data" /\ ~(c.url.mime \in ImageMimes /\ c.url.marker)
    \/ c.url.scheme = "http" /\ c.fetch = "failed"
    \/ c.url.scheme = "none" /\ c.url.given \in {"empty", "missing"}

C29_BadInputRejected ==
    \A c \in bgCalls :
        BadBgInput(c) =>
            /\ ~c.handed.given
            /\ c.stage # "removing"
            /\ c.stage = "responded" => c.res = Err400

\* a data URL of type text/plain was answered 400 without a call of
\* removeBackground
C29_Witness ==
    \E c \in bgCalls :
        /\ c.url.scheme = "data"
        /\ c.url.mime = "text/plain"
        /\ c.stage = "responded"
        /\ c.res.status = 400
        /\ ~c.handed.given

----------------------------------------------------------------------------
(* C30: the text callGemini returns holds no three consecutive backticks,  *)
(* and cleaning it again leaves it as it is. It is the answer with         *)
(* characters removed, not longer than the answer.                         *)
HasFence(text) ==
    \E j \in 1..Len(text) :
        j + 2 <= Len(text) /\ text[j] = "tick" /\ text[j + 1] = "tick" /\ text[j + 2] = "tick"

C30_FencesCleaned ==
    \A c \in layoutCalls :
        (c.stage = "responded" /\ c.res.status = 200) =>
            /\ ~HasFence(c.res.html)
            /\ CleanText(c.res.html) = c.res.html
            /\ Len(c.res.html) <= Len(c.res.text)
            /\ ~HasFence(c.res.text) => c.res.html = c.res.text

\* removing the html fence of this answer joins three backticks, which the
\* second replacement removes
C30_Witness ==
    \E c \in layoutCalls :
        /\ c.stage = "responded"
        /\ c.res.status = 200
        /\ c.res.text = <<"tick", "tick", "tick", "tick", "tick", "html", "tick">>
        /\ ReplaceAll(c.res.text, FenceHtml) = <<"tick", "tick", "tick">>
        /\ c.res.html = <<>>


(* C31: while a run is in progress the generate button is disabled, and    *)
(* the page has at most one run under way: at most one of its requests is  *)
(* outstanding, and only while the button is disabled.                     *)
C31_OneRunPerPage ==
    /\ btnDisabled <=> pc \in {"awaitLayout", "awaitImage"}
    /\ Cardinality({ c \in layoutCalls : c.origin = "page" })
           + Cardinality(PageCalls) <= 1
    /\ ({ c \in layoutCalls : c.origin = "page" } # {} \/ PageCalls # {})
           => btnDisabled
    /\ clicks = 0 => pc = "idle"

\* the second placeholder's request is outstanding and the button is disabled
C31_Witness ==
    /\ pc = "awaitImage"
    /\ btnDisabled
    /\ i = 2
    /\ Cardinality(PageCalls) = 1
    /\ clicks < MaxClicks

----------------------------------------------------------------------------
(* C32: every run that passed validation gets the generate button enabled  *)
(* and the loading indicator hidden again, however it ends: with every     *)
(* image resolved, with failed images, without placeholders or with a      *)
(* failed layout request.                                                  *)
C32_Restored == pc = "finished" => (~btnDisabled /\ loadingHidden)

C32_ButtonComesBack ==
    /\ []C32_Restored
    /\ btnDisabled ~> (~btnDisabled /\ loadingHidden)
    /\ (~loadingHidden) ~> (~btnDisabled /\ loadingHidden)

\* a run whose layout held no placeholder has ended: button enabled, indicator hidden
C32_Witness ==
    /\ pc = "finished"
    /\ HasLayout
    /\ Total = 0
    /\ clicks = 1
    /\ ~btnDisabled
    /\ loadingHidden

----------------------------------------------------------------------------
(* C33: a click rejected by validation changes nothing a run works on: the *)
(* rendered document stays, the generate button stays enabled, the loading *)
(* indicator stays hidden and the progress text is not written.            *)
C33_Step ==
    \A text \in Briefs :
        (Blank(text) /\ Click(text)) =>
            /\ UNCHANGED <<posterContainer, btnDisabled, loadingHidden, loadingText,
                           layoutData, images, i, progress, delivered>>
            /\ ~btnDisabled'
            /\ loadingHidden'

C33_RejectionKeepsState == [][C33_Step]_vars

\* a blank brief was rejected after a run that left a document with a resolved image
C33_Witness ==
    /\ clicks = 2
    /\ alerts = <<ValidationAlert>>
    /\ pc = "finished"
    /\ posterContainer # <<>>
    /\ Completed >= 1
    /\ loadingText # NoText

----------------------------------------------------------------------------
(* The three endpoints under one caller that posts to any of them, one     *)
(* request at a time, and takes each response.                             *)
NoRequest == layoutCalls = {} /\ imageCalls = {} /\ bgCalls = {}

NextEndpoints ==
    \/ NoRequest /\ OtherPostLayout
    \/ \E c \in layoutCalls : OtherReceiveLayout(c)
    \/ \E w \in FewDims, h \in FewDims, t \in BOOLEAN : NoRequest /\ ApiPost(w, h, t)
    \/ \E c \in imageCalls : ApiReceive(c)
    \/ \E u \in BgInputs : NoRequest /\ RemoveBgPost(u)
    \/ \E c \in bgCalls : RemoveBgReceive(c)
    \/ \E c \in layoutCalls : LayoutHandlerStart(c)
    \/ \E c \in layoutCalls : \E kind \in {"rejected", "notok", "nocandidates"} :
            GeminiFails(c, kind)
    \/ \E c \in layoutCalls : \E text \in OverlapTexts : GeminiReturns(c, text)
    \/ \E c \in imageCalls : ImageHandlerStart(c)
    \/ \E c \in imageCalls : \E kind \in {"rejected", "notok", "nopayload"} :
            TogetherFails(c, kind)
    \/ \E c \in imageCalls : \E b64 \in GenPayloads : TogetherReturns(c, b64)
    \/ \E c \in imageCalls : \E out \in SegOutputs : RemoveBackgroundReturns(c, out)
    \/ \E c \in imageCalls : RemoveBackgroundThrows(c)
    \/ \E c \in bgCalls : RemoveBgHandlerStart(c)
    \/ \E c \in bgCalls : \E kind \in {"rejected", "notok"} : RemoteFetchFails(c, kind)
    \/ \E c \in bgCalls : \E bytes \in ImageBytes :
            \E contentType \in {"image/jpeg", "text/html", Null} :
                RemoteFetchReturns(c, bytes, contentType)
    \/ \E c \in bgCalls : \E out \in SegOutputs \cup {<<>>} : RemoveBgReturns(c, out)
    \/ \E c \in bgCalls : RemoveBgThrows(c)

SpecEndpoints == Init /\ [][NextEndpoints]_vars

(* C34: each request to the three endpoints is answered exactly once: a    *)
(* handler that has ended has sent a response with a status, a request     *)
(* still being handled has none, a response once sent is never written     *)
(* again, and a request leaves only after its response.                    *)
Answered(c) == c.res.status \in {200, 400, 500}

C34_Answered ==
    /\ \A c \in layoutCalls : (c.stage = "responded") <=> Answered(c)
    /\ \A c \in imageCalls : (c.stage = "responded") <=> Answered(c)
    /\ \A c \in bgCalls : (c.stage = "responded") <=> Answered(c)

C34_Step ==
    /\ C34_Answered /\ C34_Answered'
    /\ \A c \in layoutCalls :
          IF Answered(c) THEN c \in layoutCalls' \/ layoutCalls' = {}
                         ELSE layoutCalls' # {}
    /\ \A c \in imageCalls :
          IF Answered(c) THEN c \in imageCalls' \/ imageCalls' = {}
                         ELSE imageCalls' # {}
    /\ \A c \in bgCalls :
          IF Answered(c) THEN c \in bgCalls' \/ bgCalls' = {}
                         ELSE bgCalls' # {}

C34_OneResponse == [][C34_Step]_vars

\* a malformed data URL was answered 400 by the early return, nothing handed on
C34_Witness ==
    \E c \in bgCalls :
        /\ c.stage = "responded"
        /\ c.res = Err400
        /\ c.handed = NoBlob
        /\ c.fetch = "none"
        /\ c.url.given # "missing"
        /\ c.url.scheme = "data"

----------------------------------------------------------------------------
(* C35: without GEMINI_API_KEY no prompt is sent to the language model and *)
(* the layout endpoint answers 500; without TOGETHER_API_KEY no body is    *)
(* sent to the image service, no generation and no background removal      *)
(* starts, and the image endpoint answers 500 without url.                 *)
C35_NoKeyNoRequest ==
    /\ ~env.gemini =>
          \A c \in layoutCalls :
              /\ c.stage \in {"sent", "responded"}
              /\ c.sent = NoPrompt
              /\ c.stage = "responded" => (c.res.status = 500 /\ c.res.html = <<>>)
    /\ ~env.together =>
          /\ genCalls = 0
          /\ segCalls = 0
          /\ \A c \in imageCalls :
                /\ c.stage \in {"sent", "responded"}
                /\ c.sent = NoSent
                /\ c.payload = NoData
                /\ c.stage = "responded" => (c.res.status = 500 /\ c.res.url = EmptySrc)

\* neither key is set: a layout request and an image request were both
\* answered 500 with nothing sent on
C35_Witness ==
    /\ ~env.gemini
    /\ ~env.together
    /\ \E c \in layoutCalls :
          c.stage = "responded" /\ c.res.status = 500 /\ c.sent = NoPrompt
    /\ \E c \in imageCalls :
          c.stage = "responded" /\ c.res.status = 500 /\ c.sent = NoSent

----------------------------------------------------------------------------
(* C36: a width or height the request leaves out is sent to the image      *)
(* service as 1024, the clamp to 64 not applying to an absent value; an    *)
(* explicit 0 is sent as 64; either value is a multiple of 16 and at least *)
(* 64.                                                                     *)
C36_Dim(given, sent) ==
    /\ given = Undefined => sent = Num(DefaultSize)
    /\ given = Num(0) => sent = Num(MinSize)
    /\ given \in {Undefined, Num(0)} => (sent.v % Multiple = 0 /\ sent.v >= MinSize)

C36_OmittedIsDefault ==
    \A c \in Forwarded :
        /\ C36_Dim(c.width, c.sent.width)
        /\ C36_Dim(c.height, c.sent.height)

\* a request without width and with height 0 was sent on as 1024 by 64
C36_Witness ==
    \E c \in Forwarded :
        /\ c.width = Undefined /\ c.height = Num(0)
        /\ c.sent.width = Num(1024) /\ c.sent.height = Num(64)

============================================================================
